---- MODULE Spec2Model ----
(***************************************************************************)
(* User-interaction instrumentation: listener registry, event-to-span      *)
(* correlation, event interception, navigation watcher and lifecycle.      *)
(*                                                                         *)
(* The repository carries two revisions of the class                       *)
(* UserInteractionInstrumentation:                                         *)
(*   impl = "settle"  : document-load/src/utils.ts lines 282-642           *)
(*                      (route snapshot compared at a 200 ms settle timer) *)
(*   impl = "history" : src/unnamed/part_000                               *)
(*                      (history API wrapped, hashchange handler,          *)
(*                       zero-delay end timer)                             *)
(* impl is fixed by Init and never changes.                                *)
(*                                                                         *)
(* The document-load instrumentation (instrumentation.ts) and its paint    *)
(* events collection (addSpanPerformancePaintEvents, utils.ts) are the     *)
(* variables docLoad and paints and the actions of the document load       *)
(* section.                                                                *)
(***************************************************************************)
EXTENDS Integers, Sequences, FiniteSets, TLC

\* ---------------------------------------------------------------- bounds
MaxEvents == 2
MaxNavEvents == 1
MaxWrappers == 2
MaxHashQueue == 1
MaxBinds == 3

\* ---------------------------------------------------------------- inputs
Impls == {"settle", "history"}
Listeners == {"L1", "L2"}
Types == {"click", "keydown"}
RegTargets == {"btn", "div"}
EventTargets == {"btn", "dbtn", "svg"}

\* the registration calls the application makes
Reg(t, ty, l, c, o) == [target |-> t, type |-> ty, listener |-> l, capture |-> c, once |-> o]
AddInputs ==
    {Reg("btn", "click", "L1", FALSE, FALSE), Reg("div", "click", "L2", FALSE, FALSE),
     Reg("btn", "click", "L1", TRUE, FALSE), Reg("btn", "click", "L1", FALSE, TRUE),
     Reg("btn", "keydown", "L1", FALSE, FALSE)}
ChainAddInputs ==
    {Reg("btn", "click", "L1", FALSE, FALSE), Reg("div", "click", "L2", FALSE, FALSE)}
ButtonAddInputs == {Reg("btn", "click", "L1", FALSE, FALSE)}
\* registrations with a null listener, an event type outside the configured
\* set, and the once option
RegInputs ==
    {Reg("btn", "click", "null", FALSE, FALSE), Reg("btn", "keydown", "L1", FALSE, FALSE),
     Reg("btn", "click", "L1", FALSE, TRUE), Reg("div", "click", "L2", FALSE, FALSE)}

\* two listeners on the parent element, which every click passes
DivAddInputs ==
    {Reg("div", "click", "L1", FALSE, FALSE), Reg("div", "click", "L2", FALSE, FALSE)}

\* removals of a listener never registered, of a registered listener on a
\* target it was not registered on, and of the once registration
RegRemovals ==
    {[target |-> "btn", type |-> "click", listener |-> "L2", capture |-> FALSE],
     [target |-> "div", type |-> "click", listener |-> "L1", capture |-> FALSE],
     [target |-> "btn", type |-> "click", listener |-> "L1", capture |-> FALSE]}

\* one triple registered with differing capture / once options, and its removals
CapInputs ==
    {Reg("btn", "click", "L1", FALSE, FALSE), Reg("btn", "click", "L1", TRUE, FALSE),
     Reg("btn", "click", "L1", FALSE, TRUE)}

\* a click listener on the button and a scroll listener on its parent
CtxInputs ==
    {Reg("btn", "click", "L1", FALSE, FALSE), Reg("div", "scroll", "L2", FALSE, FALSE)}
\* the user's click (a trusted MouseEvent), button.dispatchEvent(new
\* MouseEvent('click')) and button.dispatchEvent(new Event('click')) made by
\* the application (not trusted), and the host's scroll notification (a trusted
\* plain Event)
CtxEvents ==
    {[target |-> "btn", type |-> "click", ui |-> TRUE, trusted |-> TRUE],
     [target |-> "btn", type |-> "click", ui |-> TRUE, trusted |-> FALSE],
     [target |-> "btn", type |-> "click", ui |-> FALSE, trusted |-> FALSE],
     [target |-> "div", type |-> "scroll", ui |-> FALSE, trusted |-> TRUE]}

\* one listener registered for two types and on two targets, once on the parent
GroupInputs ==
    {Reg("btn", "click", "L1", FALSE, FALSE), Reg("div", "click", "L1", FALSE, TRUE),
     Reg("btn", "keydown", "L1", FALSE, FALSE)}

RemovalsOf(adds) ==
    {[target |-> a.target, type |-> a.type, listener |-> a.listener, capture |-> a.capture] :
        a \in adds}

\* DOM: btn, dbtn (carries the disabled attribute) and svg are children of div
Path(t) == IF t = "div" THEN <<"div">> ELSE <<t, "div">>
isHTMLElement(t) == t \in {"btn", "dbtn", "div"}
hasDisabled(t) == t = "dbtn"

Loc(p, s, h) == [pathname |-> p, search |-> s, hash |-> h]
Locations == {Loc("/", "", ""), Loc("/new", "?q", ""), Loc("/new", "?q", "#a")}
Origin == "http://h"
Href(loc) == Origin \o loc.pathname \o loc.search \o loc.hash

\* ------------------------------------------------------- program constants
EVENT_NAVIGATION_NAME == "Navigation:"
NEW_LOCATION_HREF == "new.location.href"
DEFAULT_EVENT_NAMES == {"click"}
HistoryMethods == {"replaceState", "pushState", "back", "forward", "go"}
ListenerMethods == {"addEventListener", "removeEventListener"}
Methods == ListenerMethods \cup HistoryMethods

getCurrentLocation(loc) == loc.pathname \o loc.search \o loc.hash
historyUrl(loc) == loc.pathname \o loc.hash \o loc.search
Route(i, loc) == IF i = "settle" THEN getCurrentLocation(loc) ELSE historyUrl(loc)
NavigationName(url) == EVENT_NAVIGATION_NAME \o " " \o url

\* ------------------------------------------------------------------ state
VARIABLES
    impl,              \* which revision of the class runs
    isEnabled,         \* _isEnabled
    wrapDepth,         \* per patched method: number of shimmer layers installed
    hashHandlers,      \* number of hashchange handlers installed on window
    wrappedListeners,  \* _wrappedListeners: listener -> type -> target -> wrapper id
    wrappers,          \* patchedListener closures created so far (id = index)
    platform,          \* the host's listener list, in registration order
    location,          \* window.location
    spans,             \* every span the tracer started (id = index)
    lastCreatedSpan,   \* lastCreatedSpan (0 = unset)
    ev,                \* the Event object being / last dispatched, with _eventsSpanMap entry
    pending,           \* listeners the running dispatch still has to reach
    timers,            \* scheduled span-ending tasks (span ids), FIFO
    hashQueue,         \* hashchange notifications not delivered yet (newURL)
    cycled,            \* history: some disable() has taken effect
    lastCall,          \* history: the application's latest API call and the path it took
    gone,              \* registrations the caller removed after disable()
    docLoad,           \* DocumentLoadInstrumentation and the window it watches
    paints             \* one record per addSpanPerformancePaintEvents call

vars == <<impl, isEnabled, wrapDepth, hashHandlers, wrappedListeners, wrappers, platform,
          location, spans, lastCreatedSpan, ev, pending, timers, hashQueue, cycled, lastCall, gone,
          docLoad, paints>>
uiVars == <<impl, isEnabled, wrapDepth, hashHandlers, wrappedListeners, wrappers, platform,
            location, spans, lastCreatedSpan, ev, pending, timers, hashQueue, cycled, lastCall,
            gone>>

\* ------------------------------------------------------------ map helpers
EmptyMap == [x \in {} |-> 0]
MapSet(m, k, v) == [x \in (DOMAIN m) \cup {k} |-> IF x = k THEN v ELSE m[x]]
MapDel(m, k) == [x \in (DOMAIN m) \ {k} |-> m[x]]
MapGet(m, k, dflt) == IF k \in DOMAIN m THEN m[k] ELSE dflt

\* ------------------------------------------------------ listener registry
\* fault model: the duplicate check is dropped, a second registration overwrites
addPatchedListenerNoDupCheck(wl, on, type, listener, wrappedListener) ==
    LET l2t == MapGet(wl, listener, EmptyMap)
        e2p == MapGet(l2t, type, EmptyMap)
    IN [ok |-> TRUE,
        wl |-> MapSet(wl, listener, MapSet(l2t, type, MapSet(e2p, on, wrappedListener)))]

addPatchedListener(wl, on, type, listener, wrappedListener) ==
    LET wl1 == IF listener \in DOMAIN wl THEN wl ELSE MapSet(wl, listener, EmptyMap)
        listener2Type == wl1[listener]
        l2t1 == IF type \in DOMAIN listener2Type THEN listener2Type
                ELSE MapSet(listener2Type, type, EmptyMap)
        element2patched == l2t1[type]
    IN IF on \in DOMAIN element2patched
       THEN [ok |-> FALSE, wl |-> MapSet(wl1, listener, l2t1)]
       ELSE [ok |-> TRUE,
             wl |-> MapSet(wl1, listener,
                           MapSet(l2t1, type, MapSet(element2patched, on, wrappedListener)))]

\* fault model: the groupings of the listener are dropped whether or not a
\* wrapper was found
removePatchedListenerEager(wl, on, type, listener) ==
    [patched |-> MapGet(MapGet(MapGet(wl, listener, EmptyMap), type, EmptyMap), on, 0),
     wl |-> MapDel(wl, listener)]

\* _wrappedListeners is a WeakMap keyed by the listener whose values are
\* Map<string, Map<HTMLElement, Function>>: the elements that the registry
\* keeps reachable while the listeners in alive are reachable
registryHolds(wl, alive) ==
    {on \in RegTargets :
        \E l \in alive \cap DOMAIN wl : \E ty \in DOMAIN wl[l] : on \in DOMAIN wl[l][ty]}

\* fault model: the entry is deleted and the groupings it empties are kept
removePatchedListenerNoCleanup(wl, on, type, listener) ==
    LET patched == MapGet(MapGet(MapGet(wl, listener, EmptyMap), type, EmptyMap), on, 0)
    IN IF patched = 0 THEN [patched |-> 0, wl |-> wl]
       ELSE [patched |-> patched,
             wl |-> MapSet(wl, listener,
                           MapSet(wl[listener], type, MapDel(wl[listener][type], on)))]

\* fault model: the wrapper is looked up but its entry stays in the registry
removePatchedListenerKeeping(wl, on, type, listener) ==
    [patched |-> MapGet(MapGet(MapGet(wl, listener, EmptyMap), type, EmptyMap), on, 0),
     wl |-> wl]

\* patched = 0 stands for undefined
removePatchedListener(wl, on, type, listener) ==
    IF listener \notin DOMAIN wl THEN [patched |-> 0, wl |-> wl]
    ELSE LET listener2Type == wl[listener] IN
         IF type \notin DOMAIN listener2Type THEN [patched |-> 0, wl |-> wl]
         ELSE LET element2patched == listener2Type[type]
                  patched == MapGet(element2patched, on, 0)
              IN IF patched = 0 THEN [patched |-> 0, wl |-> wl]
                 ELSE LET e2p1 == MapDel(element2patched, on)
                          l2t1 == IF DOMAIN e2p1 = {} THEN MapDel(listener2Type, type)
                                  ELSE MapSet(listener2Type, type, e2p1)
                          wl1 == IF DOMAIN e2p1 = {} /\ DOMAIN l2t1 = {}
                                 THEN MapDel(wl, listener)
                                 ELSE MapSet(wl, listener, l2t1)
                      IN [patched |-> patched, wl |-> wl1]

\* ---------------------------------------------------------- host platform
NativeCb(l) == [kind |-> "native", listener |-> l, id |-> 0]
WrapCb(l, w) == [kind |-> "wrap", listener |-> l, id |-> w]
Entry(t, ty, cb, c, o) == [target |-> t, type |-> ty, cb |-> cb, capture |-> c, once |-> o]
SameReg(e, t, ty, cb, c) == e.target = t /\ e.type = ty /\ e.cb = cb /\ e.capture = c

\* EventTarget.prototype.addEventListener of the host: a null callback and
\* duplicates are ignored
nativeAdd(pf, t, ty, cb, c, o) ==
    IF cb = NativeCb("null")
       \/ \E i \in 1..Len(pf) : SameReg(pf[i], t, ty, cb, c) THEN pf
    ELSE Append(pf, Entry(t, ty, cb, c, o))

\* EventTarget.prototype.removeEventListener of the host
nativeRemove(pf, t, ty, cb, c) ==
    LET keep(e) == ~SameReg(e, t, ty, cb, c) IN SelectSeq(pf, keep)

\* host dispatch order for an event on target t: capturing listeners of the
\* ancestor, then the target's listeners, then bubbling listeners of the ancestor
Order(pf, t, ty) ==
    LET anc == Path(t)[Len(Path(t))]
        capAnc(e) == t # anc /\ e.target = anc /\ e.type = ty /\ e.capture
        atTarget(e) == e.target = t /\ e.type = ty
        bubAnc(e) == t # anc /\ e.target = anc /\ e.type = ty /\ ~e.capture
    IN SelectSeq(pf, capAnc) \o SelectSeq(pf, atTarget) \o SelectSeq(pf, bubAnc)

InPlatform(pf, e) == \E i \in 1..Len(pf) : pf[i] = e
Idle == pending = <<>>

\* ------------------------------------------------------------- shimmer
isWrapped(wd, m) == wd[m] > 0
wrap(wd, m) == [wd EXCEPT ![m] = @ + 1]
unwrap(wd, m) == [wd EXCEPT ![m] = IF @ > 0 THEN @ - 1 ELSE 0]

RECURSIVE wrapAll(_, _)
wrapAll(wd, ms) ==
    IF ms = {} THEN wd
    ELSE LET m == CHOOSE x \in ms : TRUE IN wrapAll(wrap(wd, m), ms \ {m})

RECURSIVE unwrapWrapped(_, _)
unwrapWrapped(wd, ms) ==
    IF ms = {} THEN wd
    ELSE LET m == CHOOSE x \in ms : TRUE
         IN unwrapWrapped(IF isWrapped(wd, m) THEN unwrap(wd, m) ELSE wd, ms \ {m})

unpatchHistoryApi(wd) == unwrapWrapped(wd, HistoryMethods)
patchHistoryApi(wd) == wrapAll(unpatchHistoryApi(wd), HistoryMethods)

\* ---------------------------------------------------------------- events
NoCalls == [p \in RegTargets \X Listeners |-> 0]
NoEvent == [id |-> 0, target |-> "none", type |-> "none", span |-> 0, calls |-> NoCalls,
            wrapCalls |-> 0, consults |-> 0, vetoes |-> 0, startThrows |-> 0,
            listenerThrows |-> 0, escaped |-> 0, lastReturned |-> 0, reSkipped |-> 0,
            ui |-> FALSE, trusted |-> FALSE, ranIn |-> "none"]

\* ------------------------------------------------------------------ spans
\* a span as the tracer hands it out, with the SpanData record of _spansData
\* (currentLocation, lastListenerEndHrTime; "" and 0 stand for undefined) and
\* history fields: ev (event it was started for), sched (end tasks scheduled),
\* vetoed (shouldPreventSpanCreation returned true for it),
\* navRoute (route after the last route-changing history call made while the
\* span was active), nameAtEnd / attrAtEnd / routeAtEnd (name, location
\* attribute and getCurrentLocation() when end was first called), lateMut
\* (renamed or attributed after end)
\* a span nothing in the program refers to any more is replaced by Collected
NewSpan(e, eventName) ==
    [ev |-> e, name |-> eventName, attr |-> "", ends |-> 0, kept |-> FALSE, vetoed |-> FALSE,
     currentLocation |-> "", lastListenerEnd |-> 0, endedWith |-> 0, sched |-> 0,
     navRoute |-> "", nameAtEnd |-> "", attrAtEnd |-> "", routeAtEnd |-> "",
     lateMut |-> FALSE]

Collected == NewSpan(0, "")
Range(q) == {q[i] : i \in 1..Len(q)}
\* a span that only lastCreatedSpan still refers to keeps what the tracer holds
Retired(r) == [Collected EXCEPT !.ev = r.ev, !.name = r.name, !.attr = r.attr,
                                !.ends = r.ends, !.kept = r.kept, !.vetoed = r.vetoed,
                                !.lateMut = r.lateMut]
collect(sp, pendingEnd, last) ==
    [i \in 1..Len(sp) |-> IF i \in pendingEnd THEN sp[i]
                          ELSE IF i = last THEN Retired(sp[i]) ELSE Collected]

\* the application acts after a dispatch is over: the Event object of that
\* dispatch is garbage, and so is every span only it referred to
DropEvent ==
    /\ ev' = [NoEvent EXCEPT !.id = ev.id]
    /\ spans' = collect(spans, Range(timers), lastCreatedSpan)

\* DocumentLoadInstrumentation after construction, in a page still loading:
\* enabled is _enabled; handler is the function this._onDocumentLoaded holds
\* (0 the method of the prototype, n the n-th function made by bind); binds
\* counts the bind calls; loadListeners are the functions on window for
\* 'load'; timeouts the zero-delay tasks of _onDocumentLoaded not run yet;
\* collections the runs of _collectPerformance; chrome is 'chrome' in
\* globalThis; visibilityState is document.visibilityState and pageHidden says
\* that pagehide was dispatched
DocInit ==
    [readyState |-> "loading", enabled |-> FALSE, handler |-> 0, binds |-> 0,
     loadListeners |-> {}, timeouts |-> 0, collections |-> 0, chrome |-> FALSE,
     visibilityState |-> "visible", pageHidden |-> FALSE]

Init ==
    /\ impl \in Impls
    /\ isEnabled = FALSE
    /\ wrapDepth = [m \in Methods |-> 0]
    /\ hashHandlers = 0
    /\ wrappedListeners = EmptyMap
    /\ wrappers = <<>>
    /\ platform = <<>>
    /\ location = Loc("/", "", "")
    /\ spans = <<>>
    /\ lastCreatedSpan = 0
    /\ ev = NoEvent
    /\ pending = <<>>
    /\ timers = <<>>
    /\ hashQueue = <<>>
    /\ cycled = FALSE
    /\ lastCall = "none"
    /\ gone = {}
    /\ docLoad = DocInit
    /\ paints = <<>>

\* ------------------------------------------------------------- lifecycle
\* fault model: enable() without the _isEnabled guard
EnableNoGuard ==
    /\ Idle
    /\ isEnabled' = TRUE
    /\ hashHandlers' = IF impl = "history" THEN hashHandlers + 1 ELSE hashHandlers
    /\ wrapDepth' = LET wd == wrapAll(wrapDepth, ListenerMethods)
                    IN IF impl = "history" THEN patchHistoryApi(wd) ELSE wd
    /\ wrapDepth'["addEventListener"] <= 2
    /\ lastCall' = "enable"
    /\ DropEvent
    /\ UNCHANGED <<docLoad, paints, impl, wrappedListeners, wrappers, platform, location, lastCreatedSpan, pending, timers, hashQueue, cycled, gone>>

Enable ==
    /\ Idle
    /\ IF isEnabled THEN UNCHANGED <<isEnabled, hashHandlers, wrapDepth>>
       ELSE /\ isEnabled' = TRUE
            \* window.addEventListener('hashchange', ...) runs before the wrap
            /\ hashHandlers' = IF impl = "history" THEN hashHandlers + 1 ELSE hashHandlers
            /\ wrapDepth' = LET wd == wrapAll(wrapDepth, ListenerMethods)
                            IN IF impl = "history" THEN patchHistoryApi(wd) ELSE wd
    /\ lastCall' = IF isEnabled THEN "enable: already enabled" ELSE "enable"
    /\ DropEvent
    /\ UNCHANGED <<docLoad, paints, impl, wrappedListeners, wrappers, platform, location, lastCreatedSpan, pending, timers, hashQueue, cycled, gone>>

\* fault model: disable() leaves the hashchange handler on window
DisableKeepingHashHandler ==
    /\ Idle
    /\ IF ~isEnabled THEN UNCHANGED <<isEnabled, wrapDepth, cycled>>
       ELSE /\ isEnabled' = FALSE
            /\ cycled' = TRUE
            /\ wrapDepth' = LET wd == unwrapWrapped(wrapDepth, ListenerMethods)
                            IN IF impl = "history" THEN unpatchHistoryApi(wd) ELSE wd
    /\ hashHandlers < 2
    /\ lastCall' = IF isEnabled THEN "disable" ELSE "disable: already disabled"
    /\ DropEvent
    /\ UNCHANGED <<docLoad, paints, impl, hashHandlers, wrappedListeners, wrappers, platform, location,
                   lastCreatedSpan, pending, timers, hashQueue, gone>>

Disable ==
    /\ Idle
    /\ IF ~isEnabled THEN UNCHANGED <<isEnabled, hashHandlers, wrapDepth, cycled>>
       ELSE /\ isEnabled' = FALSE
            /\ cycled' = TRUE
            \* the handler is in no registry entry, so the still-patched
            \* removeEventListener forwards its removal unchanged
            /\ hashHandlers' = IF impl = "history" /\ hashHandlers > 0
                               THEN hashHandlers - 1 ELSE hashHandlers
            /\ wrapDepth' = LET wd == unwrapWrapped(wrapDepth, ListenerMethods)
                            IN IF impl = "history" THEN unpatchHistoryApi(wd) ELSE wd
    /\ lastCall' = IF isEnabled THEN "disable" ELSE "disable: already disabled"
    /\ DropEvent
    /\ UNCHANGED <<docLoad, paints, impl, wrappedListeners, wrappers, platform, location, lastCreatedSpan, pending, timers, hashQueue, gone>>

\* ------------------------------------------- registration / deregistration
Triple(x) == <<x.target, x.type, x.listener>>

\* fault model: a null listener is wrapped like any other
forwardsNone(listener) == FALSE

\* addEventListenerPatched: if (!listener) the call is forwarded as it is
forwardsUnwrapped(listener) == listener = "null"

\* target.addEventListener(type, listener, useCapture) called by the application
AddEventListener(a) ==
    /\ Idle
    /\ gone' = gone \ {Triple(a)}
    /\ IF ~isWrapped(wrapDepth, "addEventListener")
       THEN /\ platform' = nativeAdd(platform, a.target, a.type, NativeCb(a.listener),
                                     a.capture, a.once)
            /\ lastCall' = "add: unpatched"
            /\ UNCHANGED <<wrappedListeners, wrappers>>
       ELSE IF forwardsUnwrapped(a.listener)
       THEN /\ platform' = nativeAdd(platform, a.target, a.type, NativeCb(a.listener),
                                     a.capture, a.once)
            /\ lastCall' = "add: null forwarded"
            /\ UNCHANGED <<wrappedListeners, wrappers>>
       ELSE LET w == Len(wrappers) + 1
                r == addPatchedListener(wrappedListeners, a.target, a.type, a.listener, w)
            IN /\ wrappedListeners' = r.wl
               /\ IF r.ok
                  THEN /\ Len(wrappers) < MaxWrappers
                       /\ wrappers' = Append(wrappers,
                              [on |-> a.target, type |-> a.type, listener |-> a.listener,
                               once |-> a.once])
                       /\ platform' = nativeAdd(platform, a.target, a.type,
                                                WrapCb(a.listener, w), a.capture, a.once)
                       /\ lastCall' = "add: wrapper installed"
                  ELSE /\ lastCall' = "add: duplicate skipped"
                       /\ UNCHANGED <<wrappers, platform>>
    /\ DropEvent
    /\ UNCHANGED <<docLoad, paints, impl, isEnabled, wrapDepth, hashHandlers, location, lastCreatedSpan, pending, timers, hashQueue, cycled>>

\* target.removeEventListener(type, listener, useCapture) called by the application
RemoveEventListener(r) ==
    /\ Idle
    /\ gone' = IF ~isEnabled /\ cycled
                  /\ \E i \in 1..Len(platform) :
                        /\ platform[i].cb.kind = "wrap"
                        /\ Triple([target |-> platform[i].target, type |-> platform[i].type,
                                   listener |-> platform[i].cb.listener]) = Triple(r)
                        /\ platform[i].capture = r.capture
               THEN gone \cup {Triple(r)} ELSE gone
    /\ IF ~isWrapped(wrapDepth, "removeEventListener")
       THEN /\ platform' = nativeRemove(platform, r.target, r.type, NativeCb(r.listener),
                                        r.capture)
            /\ lastCall' = "remove: unpatched"
            /\ UNCHANGED wrappedListeners
       ELSE LET rp == removePatchedListener(wrappedListeners, r.target, r.type, r.listener)
            IN /\ wrappedListeners' = rp.wl
               /\ platform' = IF rp.patched # 0
                              THEN nativeRemove(platform, r.target, r.type,
                                                WrapCb(r.listener, rp.patched), r.capture)
                              ELSE nativeRemove(platform, r.target, r.type,
                                                NativeCb(r.listener), r.capture)
               /\ lastCall' = IF rp.patched # 0 THEN "remove: wrapper forwarded"
                              ELSE "remove: original forwarded"
    /\ DropEvent
    /\ UNCHANGED <<docLoad, paints, impl, isEnabled, wrapDepth, hashHandlers, wrappers, location, lastCreatedSpan, pending, timers, hashQueue, cycled>>

\* ------------------------------------------------------------- span calls
updateName(sp, s, name) ==
    [sp EXCEPT ![s].name = name, ![s].lateMut = @ \/ sp[s].ends > 0]
setAttribute(sp, s, value) ==
    [sp EXCEPT ![s].attr = value, ![s].lateMut = @ \/ sp[s].ends > 0]
end(sp, s, time, loc) ==
    [sp EXCEPT ![s].ends = @ + 1,
               ![s].endedWith = IF sp[s].ends = 0 THEN time ELSE @,
               ![s].nameAtEnd = IF sp[s].ends = 0 THEN sp[s].name ELSE @,
               ![s].attrAtEnd = IF sp[s].ends = 0 THEN sp[s].attr ELSE @,
               ![s].routeAtEnd = IF sp[s].ends = 0 THEN getCurrentLocation(loc) ELSE @]

\* fault model: every event type is allowed
allowAnyEventName(eventName) == TRUE

allowEventName(eventName) == eventName \in DEFAULT_EVENT_NAMES

\* fault model: the disabled attribute is not looked at
QualifiesIgnoringDisabled(element, eventName) ==
    isHTMLElement(element) /\ allowEventName(eventName)

\* the checks of _createSpan that precede startSpan
Qualifies(element, eventName) ==
    /\ isHTMLElement(element)
    /\ ~hasDisabled(element)
    /\ allowEventName(eventName)

\* fault model: the veto of shouldPreventSpanCreation is ignored
createSpanIgnoringVeto(sp, last, e, element, eventName, startThrows, veto) ==
    IF ~Qualifies(element, eventName) \/ startThrows
    THEN [span |-> 0, spans |-> sp, last |-> last, consulted |-> FALSE, raised |-> FALSE]
    ELSE LET s == Len(sp) + 1
         IN [span |-> s,
             spans |-> Append(sp, [NewSpan(e, eventName) EXCEPT !.kept = TRUE,
                                                               !.vetoed = veto]),
             last |-> IF impl = "history" THEN s ELSE last, consulted |-> TRUE,
             raised |-> FALSE]

\* fault model: no try / catch around tracer.startSpan
createSpanUncaught(sp, last, e, element, eventName, startThrows, veto) ==
    [createSpanIgnoringVeto(sp, last, e, element, eventName, startThrows, FALSE)
        EXCEPT !.raised = Qualifies(element, eventName) /\ startThrows]

\* _createSpan: span = 0 stands for undefined; startThrows and veto are the
\* outcomes of tracer.startSpan and of shouldPreventSpanCreation; raised says
\* whether an exception leaves _createSpan
createSpan(sp, last, e, element, eventName, startThrows, veto) ==
    IF ~Qualifies(element, eventName) \/ startThrows
    THEN [span |-> 0, spans |-> sp, last |-> last, consulted |-> FALSE, raised |-> FALSE]
    ELSE LET s == Len(sp) + 1
             last1 == IF impl = "history" THEN s ELSE last
         IN IF veto
            THEN [span |-> 0,
                  spans |-> Append(sp, [NewSpan(e, eventName) EXCEPT !.vetoed = TRUE]),
                  last |-> last1, consulted |-> TRUE, raised |-> FALSE]
            ELSE [span |-> s,
                  spans |-> Append(sp, [NewSpan(e, eventName) EXCEPT !.kept = TRUE]),
                  last |-> last1, consulted |-> TRUE, raised |-> FALSE]

\* fault model: the location attribute is given the route instead of the href
updateSpanAsNavigationRouteAttr(sp, s, loc) ==
    setAttribute(updateName(sp, s, NavigationName(getCurrentLocation(loc))), s,
                 getCurrentLocation(loc))

\* _updateSpanAsNavigation (settle revision)
updateSpanAsNavigation(sp, s, loc) ==
    setAttribute(updateName(sp, s, NavigationName(getCurrentLocation(loc))), s, Href(loc))

\* _updateInteractionName (history revision): active = 0 when no span is active
updateInteractionName(sp, active, url) ==
    IF active # 0 THEN updateName(sp, active, NavigationName(url)) ELSE sp

\* -------------------------------------------------- what a listener does
SyncHistoryMethods == {"pushState", "replaceState"}
Hashes == {"", "#a"}
BasicEffects == {[kind |-> "ret"], [kind |-> "throw"]}
Effects ==
    BasicEffects
    \cup {[kind |-> "history", method |-> "pushState", to |-> l] : l \in Locations}
    \cup {[kind |-> "hash", to |-> h] : h \in Hashes}

HistoryEffects ==
    {[kind |-> "ret"]}
    \cup {[kind |-> "history", method |-> "pushState", to |-> l] : l \in Locations}

\* fault model: the span is relabeled without comparing the two routes
historyCallAlways(sp, loc, active, m, to) ==
    IF isWrapped(wrapDepth, m) THEN updateInteractionName(sp, active, historyUrl(to)) ELSE sp

\* patchHistoryMethod around the host's history method, or the bare host
\* method when it is not wrapped; active is the span of the ambient context
historyCall(sp, loc, active, m, to) ==
    LET url == historyUrl(loc)
        urlAfter == historyUrl(to)
        sp1 == IF isWrapped(wrapDepth, m) /\ url # urlAfter
               THEN updateInteractionName(sp, active, urlAfter) ELSE sp
    IN IF active # 0 /\ Route(impl, loc) # Route(impl, to)
       THEN [sp1 EXCEPT ![active].navRoute = Route(impl, to)] ELSE sp1

\* the body of an application listener: result of running effect eff with
\* span `active` in the ambient context
RunListener(sp, loc, hq, active, eff) ==
    CASE eff.kind = "ret" -> [spans |-> sp, location |-> loc, hashQueue |-> hq, threw |-> FALSE]
      [] eff.kind = "readd" -> [spans |-> sp, location |-> loc, hashQueue |-> hq, threw |-> FALSE]
      [] eff.kind = "throw" -> [spans |-> sp, location |-> loc, hashQueue |-> hq, threw |-> TRUE]
      [] eff.kind = "history" ->
            [spans |-> historyCall(sp, loc, active, eff.method, eff.to),
             location |-> eff.to, hashQueue |-> hq, threw |-> FALSE]
      [] eff.kind = "hash" ->
            LET to == [loc EXCEPT !.hash = eff.to]
            IN [spans |-> sp, location |-> to,
                hashQueue |-> IF to # loc THEN Append(hq, Href(to)) ELSE hq,
                threw |-> FALSE]

EffectAllowed(loc, hq, eff) ==
    /\ eff.kind = "hash" => (eff.to # loc.hash /\ Len(hq) < MaxHashQueue)
    /\ eff.kind = "readd" => Len(wrappers) < MaxWrappers

\* addEventListenerPatched applied to registry wl, wrappers ws and host list pf
addEventListenerPatched(wl, ws, pf, a) ==
    IF forwardsUnwrapped(a.listener)
    THEN [wl |-> wl, wrappers |-> ws, installed |-> FALSE,
          platform |-> nativeAdd(pf, a.target, a.type, NativeCb(a.listener), a.capture, a.once)]
    ELSE LET w == Len(ws) + 1
             r == addPatchedListener(wl, a.target, a.type, a.listener, w)
         IN IF r.ok
            THEN [wl |-> r.wl, installed |-> TRUE,
                  wrappers |-> Append(ws, [on |-> a.target, type |-> a.type,
                                           listener |-> a.listener, once |-> a.once]),
                  platform |-> nativeAdd(pf, a.target, a.type, WrapCb(a.listener, w),
                                         a.capture, a.once)]
            ELSE [wl |-> r.wl, wrappers |-> ws, platform |-> pf, installed |-> FALSE]

\* a listener whose body registers the listener again, on the same target
\* and with the same options (effect "readd"); any other body registers nothing
listenerReAdd(wl, ws, pf, h, eff) ==
    LET a == Reg(h.target, h.type, h.cb.listener, h.capture, h.once)
    IN IF eff.kind # "readd"
       THEN [wl |-> wl, wrappers |-> ws, platform |-> pf, installed |-> TRUE]
       ELSE IF ~isWrapped(wrapDepth, "addEventListener")
       THEN [wl |-> wl, wrappers |-> ws, installed |-> TRUE,
             platform |-> nativeAdd(pf, a.target, a.type, NativeCb(a.listener),
                                    a.capture, a.once)]
       ELSE addEventListenerPatched(wl, ws, pf, a)

\* the host takes a once listener off its list before it calls it
hostOnce(pf, h) ==
    IF h.once THEN nativeRemove(pf, h.target, h.type, h.cb, h.capture) ELSE pf

\* fault model: the wrapper does not deregister itself before the listener runs
removeNothingBeforeInvoke(wl, W) == wl

\* patchedListener: if (once) removePatchedListener(...), ahead of the listener
removeBeforeInvoke(wl, W) ==
    IF W.once THEN removePatchedListener(wl, W.on, W.type, W.listener).wl ELSE wl

\* fault model: every listener sharing the span overwrites the snapshot
snapshotLocationAlways(sp, span, loc) ==
    IF span # 0 /\ impl = "settle"
    THEN [sp EXCEPT ![span].currentLocation = getCurrentLocation(loc)]
    ELSE sp

\* patchedListener (settle revision): if (spansData.currentLocation ===
\* undefined) spansData.currentLocation = getCurrentLocation(), ahead of the
\* listener; span = 0 when the event has no span
snapshotLocation(sp, span, loc) ==
    IF span # 0 /\ impl = "settle" /\ sp[span].currentLocation = ""
    THEN [sp EXCEPT ![span].currentLocation = getCurrentLocation(loc)]
    ELSE sp

\* --------------------------------------------------------------- dispatch
\* the host starts dispatching a fresh Event of type ty on target t; the
\* previous Event object is dropped, and with it the spans only it referred to
DispatchStart(t, ty, maxEvents) ==
    /\ Idle
    /\ ev.id < maxEvents
    /\ Order(platform, t, ty) # <<>>
    /\ pending' = Order(platform, t, ty)
    /\ ev' = [NoEvent EXCEPT !.id = ev.id + 1, !.target = t, !.type = ty,
                             !.ui = TRUE, !.trusted = TRUE]
    /\ spans' = collect(spans, Range(timers), lastCreatedSpan)
    /\ UNCHANGED <<docLoad, paints, impl, isEnabled, wrapDepth, hashHandlers, wrappedListeners, wrappers,
                   platform, location, lastCreatedSpan, timers, hashQueue, cycled, lastCall, gone>>

\* an Event object e (e.ui: it is a UIEvent, e.trusted: isTrusted) starts
\* being dispatched on e.target, by the host or through dispatchEvent
Dispatch(e, maxEvents) ==
    /\ Idle
    /\ ev.id < maxEvents
    /\ Order(platform, e.target, e.type) # <<>>
    /\ pending' = Order(platform, e.target, e.type)
    /\ ev' = [NoEvent EXCEPT !.id = ev.id + 1, !.target = e.target, !.type = e.type,
                             !.ui = e.ui, !.trusted = e.trusted]
    /\ spans' = collect(spans, Range(timers), lastCreatedSpan)
    /\ UNCHANGED <<docLoad, paints, impl, isEnabled, wrapDepth, hashHandlers, wrappedListeners, wrappers,
                   platform, location, lastCreatedSpan, timers, hashQueue, cycled, lastCall, gone>>

\* fault model: a listener without a span always runs in the root context
noSpanContextAlwaysRoot(ui, trusted) == "root"

\* the tracing context a wrapper without a span invokes the listener in: the
\* settle revision enters ROOT_CONTEXT if (event instanceof UIEvent &&
\* event.isTrusted), the history revision invokes the listener directly
noSpanContext(ui, trusted) ==
    IF impl = "settle" /\ ui /\ trusted THEN "root" ELSE "ambient"

\* the synthetic wrapper h.cb.id runs for the Event ev with this = h.target
patchedListener(h, startThrows, veto, eff) ==
    LET W == wrappers[h.cb.id]
        wl1 == removeBeforeInvoke(wrappedListeners, W)
        eventSpan == ev.span
        cs == IF eventSpan # 0
              THEN [span |-> eventSpan, spans |-> spans, last |-> lastCreatedSpan,
                    consulted |-> FALSE, raised |-> FALSE]
              ELSE createSpan(spans, lastCreatedSpan, ev.id, ev.target, W.type,
                              startThrows, veto)
        span == cs.span
        sp1 == snapshotLocation(cs.spans, span, location)
        \* an exception leaving _createSpan leaves the wrapper before the listener
        run == IF cs.raised
               THEN [spans |-> sp1, location |-> location, hashQueue |-> hashQueue,
                     threw |-> TRUE]
               ELSE RunListener(sp1, location, hashQueue, span, eff)
        n == ev.wrapCalls + 1
        sp2 == IF span # 0 /\ ~run.threw
               THEN [run.spans EXCEPT ![span].lastListenerEnd = n] ELSE run.spans
        schedule == span # 0 /\ eventSpan = 0 /\ ~run.threw
        ra == listenerReAdd(wl1, wrappers, hostOnce(platform, h), h,
                            IF cs.raised THEN [kind |-> "throw"] ELSE eff)
    IN /\ wrappedListeners' = ra.wl
       /\ wrappers' = ra.wrappers
       /\ platform' = ra.platform
       /\ spans' = IF schedule THEN [sp2 EXCEPT ![span].sched = @ + 1] ELSE sp2
       /\ lastCreatedSpan' = cs.last
       /\ location' = run.location
       /\ hashQueue' = run.hashQueue
       /\ timers' = IF schedule THEN Append(timers, span) ELSE timers
       /\ ev' = [ev EXCEPT !.span = span,
                           !.calls[<<h.target, W.listener>>] =
                                @ + (IF cs.raised THEN 0 ELSE 1),
                           !.escaped = @ + (IF cs.raised THEN 1 ELSE 0),
                           !.lastReturned = IF run.threw THEN @ ELSE n,
                           !.reSkipped = @ + (IF W.once /\ ~ra.installed THEN 1 ELSE 0),
                           !.ranIn = IF cs.raised THEN @
                                     ELSE IF span # 0 THEN "span"
                                     ELSE noSpanContext(ev.ui, ev.trusted),
                           !.wrapCalls = n,
                           !.consults = @ + (IF cs.consulted THEN 1 ELSE 0),
                           !.vetoes = @ + (IF cs.consulted /\ veto THEN 1 ELSE 0),
                           !.startThrows = @ + (IF startThrows THEN 1 ELSE 0),
                           !.listenerThrows =
                                @ + (IF run.threw /\ ~cs.raised THEN 1 ELSE 0)]

\* a listener the host holds unwrapped (registered while nothing was patched)
nativeListener(h, eff) ==
    LET run == RunListener(spans, location, hashQueue, 0, eff)
        ra == listenerReAdd(wrappedListeners, wrappers, hostOnce(platform, h), h, eff)
    IN /\ spans' = run.spans
       /\ wrappedListeners' = ra.wl
       /\ wrappers' = ra.wrappers
       /\ platform' = ra.platform
       /\ location' = run.location
       /\ hashQueue' = run.hashQueue
       /\ ev' = [ev EXCEPT !.calls[<<h.target, h.cb.listener>>] = @ + 1,
                           !.listenerThrows = @ + (IF run.threw THEN 1 ELSE 0)]
       /\ UNCHANGED <<lastCreatedSpan, timers>>

\* the running dispatch reaches its next listener, whose body is one of effs;
\* startOutcomes: whether tracer.startSpan may throw, vetoOutcomes: what
\* shouldPreventSpanCreation may return
InvokeNext(effs, startOutcomes, vetoOutcomes) ==
    /\ pending # <<>>
    /\ pending' = Tail(pending)
    /\ LET h == Head(pending) IN
       IF ~InPlatform(platform, h)
       THEN UNCHANGED <<platform, wrappedListeners, wrappers, spans, lastCreatedSpan,
                        location, hashQueue, timers, ev>>
       ELSE /\ \E eff \in effs :
                 /\ EffectAllowed(location, hashQueue, eff)
                 /\ IF h.cb.kind = "native" THEN nativeListener(h, eff)
                    ELSE LET canCreate == ev.span = 0 /\ Qualifies(ev.target, h.type)
                         IN \E startThrows \in (IF canCreate THEN startOutcomes
                                                 ELSE {FALSE}) :
                            \E veto \in (IF canCreate /\ ~startThrows THEN vetoOutcomes
                                         ELSE {FALSE}) :
                               patchedListener(h, startThrows, veto, eff)
    /\ UNCHANGED <<docLoad, paints, impl, isEnabled, wrapDepth, hashHandlers, cycled, lastCall, gone>>

\* fault model: end is called without the recorded timestamp
settleWithoutTimestamp(sp, s, loc) ==
    end(IF impl = "settle" /\ sp[s].currentLocation # getCurrentLocation(loc)
        THEN updateSpanAsNavigation(sp, s, loc) ELSE sp,
        s, 0, loc)

\* fault model: the span is relabeled after it has been ended
settleEndFirst(sp, s, loc) ==
    LET ended == end(sp, s, sp[s].lastListenerEnd, loc)
    IN IF impl = "settle" /\ sp[s].currentLocation # getCurrentLocation(loc)
       THEN updateSpanAsNavigation(ended, s, loc) ELSE ended

\* the span-ending task scheduled by patchedListener fires
settle(sp, s, loc) ==
    IF impl = "settle"
    THEN end(IF sp[s].currentLocation # getCurrentLocation(loc)
             THEN updateSpanAsNavigation(sp, s, loc) ELSE sp,
             s, sp[s].lastListenerEnd, loc)
    ELSE end(sp, s, sp[s].lastListenerEnd, loc)

\* fault model: the task may fire while the dispatch is still running
SettleFireDuringDispatch ==
    /\ timers # <<>>
    /\ spans' = settle(spans, Head(timers), location)
    /\ timers' = Tail(timers)
    /\ UNCHANGED <<docLoad, paints, impl, isEnabled, wrapDepth, hashHandlers, wrappedListeners, wrappers,
                   platform, location, lastCreatedSpan, ev, pending, hashQueue, cycled, lastCall,
                   gone>>

\* a timer callback is a task of its own: it runs after the dispatch that
\* scheduled it has returned
SettleFire ==
    /\ Idle
    /\ timers # <<>>
    /\ spans' = settle(spans, Head(timers), location)
    /\ timers' = Tail(timers)
    /\ UNCHANGED <<docLoad, paints, impl, isEnabled, wrapDepth, hashHandlers, wrappedListeners, wrappers,
                   platform, location, lastCreatedSpan, ev, pending, hashQueue, cycled, lastCall,
                   gone>>

\* ------------------------------------------------------------- navigation
\* application code outside any listener calls a history method
AppHistoryCall(m, to) ==
    /\ Idle
    /\ to # location
    /\ ev' = [NoEvent EXCEPT !.id = ev.id]
    /\ spans' = historyCall(collect(spans, Range(timers), lastCreatedSpan),
                            location, 0, m, to)
    /\ location' = to
    /\ UNCHANGED <<docLoad, paints, impl, isEnabled, wrapDepth, hashHandlers, wrappedListeners, wrappers,
                   platform, lastCreatedSpan, pending, timers, hashQueue, cycled, lastCall, gone>>

\* the user changes the fragment
UserHash(h) ==
    /\ Idle
    /\ h # location.hash
    /\ Len(hashQueue) < MaxHashQueue
    /\ location' = [location EXCEPT !.hash = h]
    /\ hashQueue' = Append(hashQueue, Href(location'))
    /\ DropEvent
    /\ UNCHANGED <<docLoad, paints, impl, isEnabled, wrapDepth, hashHandlers, wrappedListeners, wrappers,
                   platform, lastCreatedSpan, pending, timers, cycled, lastCall, gone>>

\* fault model: the handler leaves a span alone once it has ended
hashChangeHandlerUnlessEnded(sp, last, newURL) ==
    IF last # 0 /\ sp[last].ends = 0 THEN updateName(sp, last, NavigationName(newURL))
    ELSE sp

\* __hashChangeHandler
hashChangeHandler(sp, last, newURL) ==
    IF last # 0 THEN updateName(sp, last, NavigationName(newURL)) ELSE sp

\* the host delivers a hashchange notification to window
HashChangeDeliver ==
    /\ Idle
    /\ hashQueue # <<>>
    /\ hashQueue' = Tail(hashQueue)
    /\ spans' = IF hashHandlers > 0
                THEN hashChangeHandler(spans, lastCreatedSpan, Head(hashQueue))
                ELSE spans
    /\ UNCHANGED <<docLoad, paints, impl, isEnabled, wrapDepth, hashHandlers, wrappedListeners, wrappers,
                   platform, location, lastCreatedSpan, ev, pending, timers, cycled, lastCall, gone>>

\* ---------------------------------------------------------- document load
\* DocumentLoadInstrumentation.enable(): removeEventListener('load',
\* this._onDocumentLoaded), then _waitForPageLoad()
DocEnable ==
    LET kept == docLoad.loadListeners \ {docLoad.handler}
    IN /\ IF docLoad.readyState = "complete" /\ ~docLoad.enabled
          THEN docLoad' = [docLoad EXCEPT !.enabled = TRUE,
                                          !.loadListeners = kept,
                                          !.timeouts = @ + 1]
          ELSE /\ docLoad.binds < MaxBinds
               /\ docLoad' = [docLoad EXCEPT !.handler = docLoad.binds + 1,
                                              !.binds = @ + 1,
                                              !.loadListeners = kept \cup {docLoad.binds + 1}]
       /\ UNCHANGED <<uiVars, paints>>

\* DocumentLoadInstrumentation.disable()
DocDisable ==
    /\ docLoad' = [docLoad EXCEPT !.loadListeners = @ \ {docLoad.handler}]
    /\ UNCHANGED <<uiVars, paints>>

\* the page finishes loading: readyState becomes complete and the host
\* dispatches load on window, once; every listener is _onDocumentLoaded,
\* which schedules a task
PageLoad ==
    /\ docLoad.readyState = "loading"
    /\ \E c \in BOOLEAN :
          docLoad' = [docLoad EXCEPT !.readyState = "complete",
                                     !.chrome = c,
                                     !.timeouts = @ + Cardinality(docLoad.loadListeners)]
    /\ UNCHANGED <<uiVars, paints>>

VitalsMetrics == {"CLS", "FCP", "FID", "LCP", "TTFB"}
\* the metrics web-vitals reports in this browser
Reportable(chrome) == IF chrome THEN VitalsMetrics ELSE {"FCP", "FID", "TTFB"}

\* addSpanPerformancePaintEvents up to its return: missed is missedMetrics;
\* vis and hide say whether endSpan is a listener of visibilitychange on
\* document and of pagehide on globalThis; callbacks counts the calls of the
\* completion callback and reentered says that endSpan was called again
\* after it had ended the span; lcpRecord: the PerformanceObserver of lines 131-141
\* handed out a largest-contentful-paint record (never in the revision of
\* lines 219-264, which has no observer)
NewPaint(chrome, lcpRecord) ==
    [missed |-> ({"FCP", "FID", "TTFB"} \cup (IF chrome THEN {"LCP", "CLS"} ELSE {}))
                   \ (IF lcpRecord THEN {"LCP"} ELSE {}),
     spanIsEnded |-> FALSE, vis |-> TRUE, hide |-> TRUE, callbacks |-> 0,
     reentered |-> FALSE]

\* fault model: endSpan without the spanIsEnded flag
endSpanUnguarded(p) ==
    [p EXCEPT !.vis = FALSE, !.hide = FALSE, !.spanIsEnded = TRUE, !.callbacks = @ + 1,
              !.reentered = @ \/ p.spanIsEnded]

\* endSpan of addSpanPerformancePaintEvents
endSpan(p) ==
    [p EXCEPT !.vis = FALSE, !.hide = FALSE, !.spanIsEnded = TRUE,
              !.callbacks = IF p.spanIsEnded THEN @ ELSE @ + 1,
              !.reentered = @ \/ p.spanIsEnded]

\* handleNewMetric of addSpanPerformancePaintEvents
handleNewMetric(p, name) ==
    LET p1 == [p EXCEPT !.missed = @ \ {name}]
    IN IF p1.missed = {} THEN endSpan(p1) ELSE p1

\* a task scheduled by _onDocumentLoaded runs: _collectPerformance; hasRoot:
\* the navigation entries carry fetchStart, so the documentLoad span exists
\* and addSpanPerformancePaintEvents is called for it
DocTimeout ==
    /\ docLoad.timeouts > 0
    /\ docLoad' = [docLoad EXCEPT !.timeouts = @ - 1, !.collections = @ + 1]
    /\ \E hasRoot, lcpRecord \in BOOLEAN :
          paints' = IF hasRoot THEN Append(paints, NewPaint(docLoad.chrome, lcpRecord))
                    ELSE paints
    /\ UNCHANGED uiVars

\* web-vitals reports metric name to the handler given by the i-th call
MetricReport(i, name) ==
    /\ i \in 1..Len(paints)
    /\ name \in Reportable(docLoad.chrome)
    /\ paints' = [paints EXCEPT ![i] = handleNewMetric(@, name)]
    /\ UNCHANGED <<uiVars, docLoad>>

\* the tab is hidden or shown again: the host dispatches visibilitychange on
\* document
VisibilityChange ==
    /\ ~docLoad.pageHidden
    /\ docLoad' = [docLoad EXCEPT !.visibilityState =
                                     IF @ = "visible" THEN "hidden" ELSE "visible"]
    /\ paints' = [i \in 1..Len(paints) |-> IF paints[i].vis THEN endSpan(paints[i])
                                            ELSE paints[i]]
    /\ UNCHANGED uiVars

\* the page is left: the host dispatches pagehide on the global object
PageHide ==
    /\ ~docLoad.pageHidden
    /\ docLoad' = [docLoad EXCEPT !.pageHidden = TRUE]
    /\ paints' = [i \in 1..Len(paints) |-> IF paints[i].hide THEN endSpan(paints[i])
                                            ELSE paints[i]]
    /\ UNCHANGED uiVars

\* lifecycle: enable / disable around the registration of one button listener
Next ==
    \/ Enable
    \/ Disable
    \/ \E a \in ButtonAddInputs : AddEventListener(a)
    \/ \E r \in RemovalsOf(ButtonAddInputs) : RemoveEventListener(r)
    \/ \E t \in EventTargets : DispatchStart(t, "click", MaxEvents)
    \/ InvokeNext(BasicEffects, BOOLEAN, BOOLEAN)
    \/ SettleFire

Spec == Init /\ [][Next]_vars

\* registration options (capture, once, other event types) and bubbling,
\* with the instrumentation enabled before the first registration
NextAdd ==
    \/ Enable
    \/ \E a \in AddInputs : isEnabled /\ AddEventListener(a)
    \/ \E t \in EventTargets, ty \in Types : DispatchStart(t, ty, MaxEvents)
    \/ InvokeNext(BasicEffects, BOOLEAN, BOOLEAN)
    \/ SettleFire

SpecAdd == Init /\ [][NextAdd]_vars

\* navigation: listeners on the button and its parent also change the route
NextNav ==
    \/ Enable
    \/ \E a \in ChainAddInputs : isEnabled /\ AddEventListener(a)
    \/ DispatchStart("btn", "click", MaxNavEvents)
    \/ InvokeNext(Effects, {FALSE}, BOOLEAN)
    \/ SettleFire
    \/ \E m \in SyncHistoryMethods, to \in Locations : AppHistoryCall(m, to)
    \/ \E h \in Hashes : UserHash(h)
    \/ HashChangeDeliver

SpecNav == Init /\ [][NextNav]_vars

\* registration edge cases: null listener, unconfigured event type, once
NextReg ==
    \/ Enable
    \/ \E a \in RegInputs : isEnabled /\ AddEventListener(a)
    \/ \E r \in RegRemovals : RemoveEventListener(r)
    \/ \E ty \in Types : DispatchStart("btn", ty, MaxEvents)
    \/ InvokeNext({[kind |-> "ret"], [kind |-> "readd"]}, {FALSE}, {FALSE})
    \/ SettleFire

SpecReg == Init /\ [][NextReg]_vars

\* clicks on the button, the disabled button and the svg child, observed by
\* two listeners on their parent
NextElem ==
    \/ Enable
    \/ \E a \in DivAddInputs : isEnabled /\ AddEventListener(a)
    \/ \E t \in EventTargets : DispatchStart(t, "click", MaxEvents)
    \/ InvokeNext(BasicEffects, BOOLEAN, BOOLEAN)
    \/ SettleFire

SpecElem == Init /\ [][NextElem]_vars

\* route changes around the clicks on one button listener
NextRoute ==
    \/ Enable
    \/ \E a \in ButtonAddInputs : isEnabled /\ AddEventListener(a)
    \/ DispatchStart("btn", "click", MaxEvents)
    \/ InvokeNext(Effects, {FALSE}, {FALSE})
    \/ SettleFire
    \/ \E h \in Hashes : UserHash(h)
    \/ HashChangeDeliver

SpecRoute == Init /\ [][NextRoute]_vars

\* registrations and removals of one triple whose options differ between calls
NextRem ==
    \/ Enable
    \/ \E a \in CapInputs : isEnabled /\ AddEventListener(a)
    \/ \E r \in RemovalsOf(CapInputs) : RemoveEventListener(r)
    \/ DispatchStart("btn", "click", MaxEvents)
    \/ InvokeNext({[kind |-> "ret"]}, {FALSE}, {FALSE})
    \/ SettleFire

SpecRem == Init /\ [][NextRem]_vars

\* enable() / disable() interleaved with registrations of one triple
NextCycle ==
    \/ Enable
    \/ Disable
    \/ \E a \in ButtonAddInputs : AddEventListener(a)
    \/ DispatchStart("btn", "click", MaxEvents)
    \/ InvokeNext(BasicEffects, {FALSE}, {FALSE})
    \/ SettleFire

SpecCycle == Init /\ [][NextCycle]_vars

\* history calls made by the listener of one button and by the application
NextHist ==
    \/ Enable
    \/ \E a \in ButtonAddInputs : isEnabled /\ AddEventListener(a)
    \/ DispatchStart("btn", "click", MaxEvents)
    \/ InvokeNext(HistoryEffects, {FALSE}, {FALSE})
    \/ SettleFire
    \/ \E m \in SyncHistoryMethods, to \in Locations : AppHistoryCall(m, to)

SpecHist == Init /\ [][NextHist]_vars

\* the listeners of the button and of its parent change the route while
\* they share the span of one click
NextSnap ==
    \/ Enable
    \/ \E a \in ChainAddInputs : isEnabled /\ AddEventListener(a)
    \/ DispatchStart("btn", "click", MaxEvents)
    \/ InvokeNext(HistoryEffects, {FALSE}, {FALSE})
    \/ SettleFire

SpecSnap == Init /\ [][NextSnap]_vars

\* events of the four kinds reach listeners whose span may be suppressed,
\* vetoed or fail to start
NextCtx ==
    \/ Enable
    \/ \E a \in CtxInputs : isEnabled /\ AddEventListener(a)
    \/ \E e \in CtxEvents : Dispatch(e, MaxEvents)
    \/ InvokeNext({[kind |-> "ret"]}, BOOLEAN, BOOLEAN)
    \/ SettleFire

SpecCtx == Init /\ [][NextCtx]_vars

\* registrations and removals that fill and empty the groupings of one listener
NextGroup ==
    \/ Enable
    \/ \E a \in GroupInputs : isEnabled /\ AddEventListener(a)
    \/ \E r \in RemovalsOf(GroupInputs) : RemoveEventListener(r)
    \/ DispatchStart("btn", "click", MaxEvents)
    \/ InvokeNext({[kind |-> "ret"]}, {FALSE}, {FALSE})
    \/ SettleFire

SpecGroup == Init /\ [][NextGroup]_vars

\* enable() / disable() of the document-load instrumentation around the
\* page's load event
NextDoc ==
    \/ DocEnable
    \/ DocDisable
    \/ PageLoad
    \/ DocTimeout

SpecDoc == Init /\ [][NextDoc]_vars

\* the paint events collection between its start and the end of the page,
\* enable() not being called again once it has attached a load listener
NextPaint ==
    \/ docLoad.binds = 0 /\ DocEnable
    \/ PageLoad
    \/ DocTimeout
    \/ \E i \in 1..Len(paints), name \in VitalsMetrics : MetricReport(i, name)
    \/ VisibilityChange
    \/ PageHide

SpecPaint == Init /\ [][NextPaint]_vars

\* ----------------------------------------------------------------- claims
Live == ev.target # "none"
DispatchDone == Idle /\ Live
EvSpans == {s \in 1..Len(spans) : Live /\ spans[s].ev = ev.id}
InstalledWrappers(t, ty, l) ==
    {i \in 1..Len(platform) : /\ platform[i].cb.kind = "wrap"
                              /\ platform[i].target = t
                              /\ platform[i].type = ty
                              /\ platform[i].cb.listener = l}
NoNativeEntry == \A i \in 1..Len(platform) : platform[i].cb.kind = "wrap"
CreationUnhindered ==
    Qualifies(ev.target, ev.type) /\ ev.startThrows = 0 /\ ev.vetoes = 0

\* C1: every dispatched event that reaches N >= 1 instrumented listeners (and
\* whose span creation is not suppressed) has exactly one span created for it
\* and exactly one span-ending task scheduled, whatever N is.
C1_OneSpanOneEndTask ==
    (DispatchDone /\ ev.wrapCalls >= 1 /\ CreationUnhindered)
        => \E s \in EvSpans : EvSpans = {s} /\ spans[s].sched = 1

\* C2: for any sequence of addEventListener calls on one (target, type,
\* listener) triple at most one synthetic wrapper is installed on the host, and
\* a dispatched event invokes the original listener once per target.
C2_OneWrapperPerTriple ==
    /\ \A a \in AddInputs :
          Cardinality(InstalledWrappers(a.target, a.type, a.listener)) <= 1
    /\ Live => \A p \in RegTargets \X Listeners : ev.calls[p] <= 1

\* C2 witness: a duplicate registration was skipped and the event that followed
\* invoked the listener once
C2_Witness ==
    /\ lastCall = "add: duplicate skipped"
    /\ DispatchDone
    /\ ev.calls[<<"btn", "L1">>] = 1

\* C3: once everything scheduled has run, end has been called exactly once on
\* every span stored for an event, also when listeners threw.
C3_EndExactlyOnce ==
    /\ \A s \in 1..Len(spans) : spans[s].ends <= 1
    /\ (Idle /\ timers = <<>>) =>
          \A s \in 1..Len(spans) : spans[s].kept => spans[s].ends = 1

C5_HashChangeRelabels ==
    [][(/\ hashQueue # <<>>
        /\ hashQueue' = Tail(hashQueue)
        /\ impl = "history" /\ isEnabled
        /\ Len(spans) > 0)
          => spans'[Len(spans)].name = NavigationName(Head(hashQueue))]_vars

\* C5 witness: a span that had already ended carries the name of a hashchange
C5_Witness ==
    /\ impl = "history"
    /\ \E s \in 1..Len(spans) :
          /\ spans[s].ends >= 1
          /\ spans[s].lateMut
          /\ spans[s].name = NavigationName(Href(Loc("/", "", "#a")))

C7_VetoReevaluates ==
    (Live /\ Qualifies(ev.target, ev.type) /\ ev.startThrows = 0) =>
        /\ ev.span = 0 => (ev.consults = ev.wrapCalls /\ ev.vetoes = ev.consults)
        /\ ev.span # 0 =>
              /\ ev.vetoes = ev.consults - 1
              /\ ev.consults <= ev.wrapCalls
              /\ spans[ev.span].kept /\ ~spans[ev.span].vetoed
              /\ {s \in EvSpans : spans[s].kept} = {ev.span}

\* C7 witness: the first listener's span was vetoed, the second one's was kept
C7_Witness ==
    /\ DispatchDone
    /\ ev.vetoes = 1 /\ ev.consults = 2 /\ ev.span # 0

\* C8: a listener registered while enabled and removed by the caller after
\* disable() is not invoked by a later event.
C8_RemovedAfterDisableNotInvoked ==
    Live => \A p \in RegTargets \X Listeners :
               <<p[1], ev.type, p[2]>> \in gone => ev.calls[p] = 0

PatchedMethods == IF impl = "history" THEN Methods ELSE ListenerMethods
SteadyPatches(on) ==
    /\ \A m \in Methods :
          wrapDepth[m] = IF on /\ m \in PatchedMethods THEN 1 ELSE 0
    /\ hashHandlers = IF on /\ impl = "history" THEN 1 ELSE 0

\* C9: after disable() then enable() every patch is installed once and the
\* hashchange handler once, and an event reaching a listener registered under
\* the instrumentation produces one span and one invocation, as before the cycle.
C9_CycleRestores ==
    (cycled /\ isEnabled) =>
        /\ SteadyPatches(TRUE)
        /\ (DispatchDone /\ NoNativeEntry /\ CreationUnhindered /\ ev.wrapCalls >= 1) =>
              /\ Cardinality(EvSpans) = 1
              /\ ev.calls[<<"btn", "L1">>] = 1

\* C9 witness: registered, disabled, enabled, dispatched: one span, one call
C9_Witness ==
    /\ cycled /\ isEnabled /\ DispatchDone /\ NoNativeEntry
    /\ lastCall = "enable"
    /\ Cardinality(EvSpans) = 1
    /\ ev.calls[<<"btn", "L1">>] = 1

\* C10: whatever enable()/disable() calls were made, each patched method is
\* wrapped exactly once and the hashchange handler installed once while
\* enabled, and nothing is wrapped or installed while disabled.
C10_LifecycleIdempotent == SteadyPatches(isEnabled)

\* C10 witness: enable() called on an instrumentation that a disable / enable
\* cycle had already re-enabled
C10_Witness ==
    /\ lastCall = "enable: already enabled"
    /\ cycled /\ isEnabled

RegistryTypes == UNION {DOMAIN wrappedListeners[l] : l \in DOMAIN wrappedListeners}
NullNeverWrapped ==
    /\ "null" \notin DOMAIN wrappedListeners
    /\ \A i \in 1..Len(wrappers) : wrappers[i].listener # "null"
    /\ \A i \in 1..Len(platform) : platform[i].cb.listener # "null"

\* C11: a registration with a null listener, or for an event type outside the
\* configured set, reaches the host with the caller's own listener and leaves
\* the registry as it was.
C11_PassThrough ==
    /\ NullNeverWrapped
    /\ \A i \in 1..Len(platform) :
          ~allowEventName(platform[i].type) => platform[i].cb.kind = "native"
    /\ \A ty \in RegistryTypes : allowEventName(ty)

\* C11 as amended: a null listener is forwarded untouched; a registration for
\* an event type outside the configured set is wrapped and recorded in the
\* registry like any other (the set is only consulted when the wrapper runs).
C11_NullPassesTypeWrapped ==
    /\ NullNeverWrapped
    /\ \A i \in 1..Len(platform) :
          ~allowEventName(platform[i].type) =>
             /\ platform[i].cb.kind = "wrap"
             /\ MapGet(MapGet(MapGet(wrappedListeners, platform[i].cb.listener, EmptyMap),
                               platform[i].type, EmptyMap),
                        platform[i].target, 0) = platform[i].cb.id

\* C11 witness: a keydown listener is on the host as a wrapper and the last
\* call registered a null listener
C11_Witness ==
    /\ lastCall = "add: null forwarded"
    /\ \E i \in 1..Len(platform) :
          platform[i].type = "keydown" /\ platform[i].cb.kind = "wrap"

SumCalls ==
    ev.calls[<<"btn", "L1">>] + ev.calls[<<"btn", "L2">>]
        + ev.calls[<<"div", "L1">>] + ev.calls[<<"div", "L2">>]

\* C12: when tracer.startSpan throws, nothing escapes the wrapper, the attempt
\* leaves no span, an event all of whose attempts threw has no span and no
\* correlation entry, and every listener reached is still invoked once.
C12_StartSpanFailureContained ==
    Live =>
        /\ ev.escaped = 0
        /\ Cardinality(EvSpans) = ev.consults
        /\ NoNativeEntry => SumCalls = ev.wrapCalls
        /\ \A p \in RegTargets \X Listeners : ev.calls[p] <= 1
        /\ (ev.startThrows >= 1 /\ ev.startThrows = ev.wrapCalls) =>
              (ev.span = 0 /\ EvSpans = {})

\* C12 witness: startSpan threw for both listeners of a click, both ran
C12_Witness ==
    /\ DispatchDone
    /\ ev.startThrows = 2 /\ ev.wrapCalls = 2
    /\ ev.calls[<<"btn", "L1">>] = 1 /\ ev.calls[<<"div", "L2">>] = 1

\* C13: a removal that finds no wrapper for its triple leaves the registry and
\* every installed wrapper as they were and is forwarded to the host with the
\* caller's own listener.
C13_UnknownRemovalForwarded ==
    [][(Idle /\ lastCall' = "remove: original forwarded") =>
          /\ wrappedListeners' = wrappedListeners
          /\ wrappers' = wrappers
          /\ \/ platform' = platform
             \/ \E r \in RegRemovals :
                   platform' = nativeRemove(platform, r.target, r.type,
                                            NativeCb(r.listener), r.capture)]_vars

\* C13 witness: a removal was forwarded with the original listener while the
\* registry held other registrations of that listener
C13_Witness ==
    /\ lastCall = "remove: original forwarded"
    /\ "L1" \in DOMAIN wrappedListeners
    /\ Len(platform) >= 1

\* C14: while listeners of an event are still to run, end has not been called
\* on a span of that event, and no span of the event is ended before its
\* dispatch is over.
C14_ListenersBeforeSettle ==
    \A s \in EvSpans : spans[s].ends >= 1 => (Idle /\ spans[s].lastListenerEnd >= 1)

\* C14 witness: both listeners of a click ran under one span, which then ended
C14_Witness ==
    /\ DispatchDone /\ ev.wrapCalls = 2 /\ ev.consults = 1 /\ ev.span # 0
    /\ spans[ev.span].ends = 1

\* C15: a span is ended with the completion time of the last listener of its
\* event that returned, whichever listener scheduled the task, and no span has
\* more than one end task.
C15_EndsWithLastListenerTime ==
    /\ \A s \in 1..Len(spans) : spans[s].sched <= 1
    /\ \A i, j \in 1..Len(timers) : timers[i] = timers[j] => i = j
    /\ (DispatchDone /\ ev.span # 0 /\ spans[ev.span].ends >= 1) =>
          spans[ev.span].endedWith = ev.lastReturned

\* C15 witness: the task scheduled by the first listener ended the span with
\* the completion time of the second
C15_Witness ==
    /\ DispatchDone /\ ev.consults = 1 /\ ev.span # 0
    /\ spans[ev.span].sched = 1 /\ spans[ev.span].ends = 1
    /\ spans[ev.span].endedWith = 2

\* C16: an event of a type outside the configured set produces no span, and
\* each listener it reaches is invoked once.
C16_UnconfiguredTypeNoSpan ==
    (Live /\ ev.type \notin DEFAULT_EVENT_NAMES) =>
        /\ ev.span = 0 /\ EvSpans = {} /\ ev.consults = 0
        /\ \A p \in RegTargets \X Listeners : ev.calls[p] <= 1
        /\ SumCalls = ev.wrapCalls
        /\ DispatchDone => ev.calls[<<"btn", "L1">>] = 1

\* C16 witness: a keydown reached its listener
C16_Witness ==
    /\ DispatchDone /\ ev.type = "keydown"
    /\ ev.calls[<<"btn", "L1">>] = 1

\* C17: a click on the element carrying the disabled attribute produces no
\* span, however many listeners observe it.
C17_DisabledTargetNoSpan ==
    (Live /\ ev.target = "dbtn") =>
        /\ ev.span = 0 /\ EvSpans = {} /\ ev.consults = 0
        /\ \A i \in 1..Len(timers) : spans[timers[i]].ev # ev.id

\* C17 witness: two listeners observed a click on the disabled button
C17_Witness ==
    /\ DispatchDone /\ ev.target = "dbtn"
    /\ ev.calls[<<"div", "L1">>] = 1 /\ ev.calls[<<"div", "L2">>] = 1

\* C18: whichever listeners the application still holds, the registry keeps
\* no target element reachable.
C18_RegistryNonOwning ==
    \A alive \in SUBSET Listeners : registryHolds(wrappedListeners, alive) = {}

\* C19: (settle revision) a span that has ended was named 'Navigation:
\* <route>' exactly when the route read by the settle callback differed from
\* the snapshot of the first listener, it was renamed before end was called,
\* and otherwise it ended under the event type.
C19_RelabelIffRouteDiffers ==
    impl = "settle" =>
        \A s \in 1..Len(spans) :
            spans[s].ends >= 1 =>
                /\ ~spans[s].lateMut
                /\ spans[s].nameAtEnd =
                      IF spans[s].routeAtEnd # spans[s].currentLocation
                      THEN NavigationName(spans[s].routeAtEnd)
                      ELSE "click"

\* C19 witness: the fragment changed between the first listener and the settle
\* callback, and the span ended as a navigation
C19_Witness ==
    /\ impl = "settle"
    /\ \E s \in 1..Len(spans) :
          /\ spans[s].ends = 1
          /\ spans[s].currentLocation = "/"
          /\ spans[s].routeAtEnd = "/#a"
          /\ spans[s].nameAtEnd = "Navigation: /#a"

RegistryMaps(i) ==
    MapGet(MapGet(MapGet(wrappedListeners, wrappers[i].listener, EmptyMap),
                  wrappers[i].type, EmptyMap), wrappers[i].on, 0) = i
OnHost(pf, i) ==
    \E k \in 1..Len(pf) : pf[k].cb = WrapCb(wrappers[i].listener, i)
OnceInStep ==
    \A i \in 1..Len(wrappers) : wrappers[i].once => (RegistryMaps(i) <=> OnHost(platform, i))

\* C20: the registry entry of a once registration is gone when its listener
\* runs: the step that fires the wrapper invokes the listener once and leaves
\* the wrapper neither in the registry nor on the host, the two never disagree
\* about a once wrapper, and a listener that registers itself again from inside
\* is never skipped as a duplicate.
C20_OnceDeregistersFirst ==
    /\ [](OnceInStep /\ ev.reSkipped = 0)
    /\ [][(/\ pending # <<>>
           /\ pending' = Tail(pending)
           /\ Head(pending).cb.kind = "wrap" /\ Head(pending).once
           /\ InPlatform(platform, Head(pending)))
             => LET h == Head(pending)
                    i == h.cb.id
                    p == <<h.target, h.cb.listener>>
                IN /\ ~OnHost(platform', i)
                   /\ MapGet(MapGet(MapGet(wrappedListeners', wrappers[i].listener, EmptyMap),
                                     wrappers[i].type, EmptyMap), wrappers[i].on, 0) # i
                   /\ ev'.calls[p] = ev.calls[p] + 1
                   /\ ev'.calls[p] = 1]_vars

\* C20 witness: the once listener registered itself again while it ran, and a
\* second wrapper for the same triple is installed
C20_Witness ==
    /\ DispatchDone /\ ev.type = "click"
    /\ ev.calls[<<"btn", "L1">>] = 1
    /\ Len(wrappers) = 2 /\ wrappers[1].once /\ wrappers[2] = wrappers[1]
    /\ RegistryMaps(2) /\ OnHost(platform, 2)
Lookup(wl, r) ==
    MapGet(MapGet(MapGet(wl, r.listener, EmptyMap), r.type, EmptyMap), r.target, 0)

\* C21: a removal made through the patch for a triple that has a wrapper takes
\* that entry, and only that entry, out of the registry and reaches the host
\* with that very wrapper in place of the caller's listener; a removal that
\* finds no wrapper (the second one included) reaches the host with the
\* caller's own arguments and leaves the registry alone.
C21_RemovalForwardsWrapper ==
    [][\A r \in RemovalsOf(CapInputs) :
          (isWrapped(wrapDepth, "removeEventListener") /\ RemoveEventListener(r)) =>
             LET w == Lookup(wrappedListeners, r)
             IN IF w # 0
                THEN /\ Lookup(wrappedListeners', r) = 0
                     /\ wrappedListeners' = EmptyMap
                     /\ platform' = nativeRemove(platform, r.target, r.type,
                                                 WrapCb(r.listener, w), r.capture)
                     /\ lastCall' = "remove: wrapper forwarded"
                ELSE /\ wrappedListeners' = wrappedListeners
                     /\ platform' = nativeRemove(platform, r.target, r.type,
                                                 NativeCb(r.listener), r.capture)
                     /\ lastCall' = "remove: original forwarded"]_vars

\* C21 witness: the only wrapper ever installed was removed from the registry
\* and the host, and the triple was then removed a second time
C21_Witness ==
    /\ lastCall = "remove: original forwarded"
    /\ ev.id = 0
    /\ Len(wrappers) = 1 /\ ~wrappers[1].once
    /\ wrappedListeners = EmptyMap /\ platform = <<>>

\* C22: the registry holds a wrapper for a triple exactly when that wrapper
\* is on the host's listener list of the target.
C22_RegistryMatchesPlatform ==
    /\ \A a \in CapInputs :
          Lookup(wrappedListeners, a) # 0 =>
             \E i \in 1..Len(platform) :
                /\ platform[i].target = a.target /\ platform[i].type = a.type
                /\ platform[i].cb = WrapCb(a.listener, Lookup(wrappedListeners, a))
    /\ \A i \in 1..Len(platform) :
          platform[i].cb.kind = "wrap" =>
             Lookup(wrappedListeners, [target |-> platform[i].target, type |-> platform[i].type,
                                       listener |-> platform[i].cb.listener]) = platform[i].cb.id

\* C23: whatever enable() / disable() calls surround the registrations of one
\* triple, an event invokes the listener at most once.
C23_OneInvocationAcrossCycles ==
    Live => ev.calls[<<"btn", "L1">>] <= 1

\* C24: an event dispatched after disable() and before the next enable()
\* has no span created for it.
C24_NoSpanWhileDisabled ==
    (Live /\ ~isEnabled) => (ev.span = 0 /\ EvSpans = {})

\* the span of the ambient context while the step's listener body runs
ActiveInStep == IF pending # <<>> /\ Head(pending).cb.kind = "wrap" THEN ev'.span ELSE 0
NameBefore(s) == IF s <= Len(spans) THEN spans[s].name ELSE "click"

\* C25: (history revision) a wrapped history method lets the call through (the
\* location becomes the one asked for) and renames the span of the ambient
\* context to 'Navigation: <route after>' exactly when the route read after the
\* call differs from the one read before; no other span is renamed, and with no
\* span in the ambient context none is.
C25_HistoryCallRelabels ==
    [][LET active == ActiveInStep
           relabel == /\ isWrapped(wrapDepth, "pushState")
                      /\ historyUrl(location') # historyUrl(location)
       IN impl = "history" =>
          /\ \A s \in 1..Len(spans') :
                IF s = active /\ relabel
                THEN spans'[s].name = NavigationName(historyUrl(location'))
                ELSE \/ spans'[s].name = NameBefore(s)
                     \/ spans'[s] = Collected
          /\ (pending # <<>> /\ location' # location) =>
                \E e \in HistoryEffects : e.kind = "history" /\ location' = e.to]_vars

\* C25 witness: a listener pushed /new?q under the span of its click, and the
\* application made a history call outside any listener after that
C25_Witness ==
    /\ impl = "history"
    /\ Idle /\ ~Live
    /\ location = Loc("/", "", "")
    /\ \E s \in 1..Len(spans) :
          spans[s].navRoute = "/new?q" /\ spans[s].name = "Navigation: /new?q"

IsNavigationName(name) ==
    /\ Len(name) >= Len(EVENT_NAVIGATION_NAME)
    /\ SubSeq(name, 1, Len(EVENT_NAVIGATION_NAME)) = EVENT_NAVIGATION_NAME

\* every location a history call or a fragment change can lead to
AnyLocation == {[l EXCEPT !.hash = h] : l \in Locations, h \in Hashes}

C27_NoMutationAfterEnd ==
    \A s \in 1..Len(spans) : ~spans[s].lateMut

\* C28: a span vetoed by shouldPreventSpanCreation is never given a
\* navigation name (the span a hashchange notification renames was kept).
C28_VetoedNeverRelabeled ==
    \A s \in 1..Len(spans) : spans[s].vetoed => ~IsNavigationName(spans[s].name)

\* C29: (settle revision) the route snapshot of a span is the route read when
\* the first listener of its event was about to run, and no later step, a
\* later listener sharing the span included, writes it again.
C29_SnapshotWrittenOnce ==
    [][impl = "settle" =>
          \A s \in 1..Len(spans') :
              IF s > Len(spans)
              THEN /\ pending # <<>> /\ ev.span = 0 /\ ev'.span = s
                   /\ spans'[s].currentLocation = getCurrentLocation(location)
              ELSE \/ spans'[s].currentLocation = spans[s].currentLocation
                   \/ spans'[s] = Collected]_vars

\* C29 witness: the first listener of a click left the route of the snapshot,
\* the second one, sharing the span, came back to it, and the snapshot is the
\* one taken before the first
C29_Witness ==
    /\ impl = "settle"
    /\ DispatchDone /\ ev.id = 1 /\ ev.wrapCalls = 2 /\ ev.span # 0
    /\ spans[ev.span].currentLocation = "/"
    /\ spans[ev.span].navRoute = "/"
    /\ spans[ev.span].lastListenerEnd = 2

NoSpanCall == Live /\ ev.wrapCalls >= 1 /\ ev.span = 0 /\ ev.escaped = 0

C33_NoEmptyGrouping ==
    \A l \in DOMAIN wrappedListeners :
        /\ DOMAIN wrappedListeners[l] # {}
        /\ \A ty \in DOMAIN wrappedListeners[l] : DOMAIN wrappedListeners[l][ty] # {}

\* C33 witness: of the two registrations made, the removal took the only
\* target of the keydown grouping and left the click grouping of the listener
C33_Witness ==
    /\ lastCall = "remove: wrapper forwarded"
    /\ Len(wrappers) = 2
    /\ \E i \in 1..2 : wrappers[i].type = "keydown"
    /\ DOMAIN wrappedListeners = {"L1"}
    /\ DOMAIN wrappedListeners["L1"] = {"click"}

\* C31: whatever enable() / disable() calls are made around the load event,
\* window has at most one load listener of the instrumentation and
\* _collectPerformance runs at most once.
C31_OneListenerOneCollection ==
    /\ Cardinality(docLoad.loadListeners) <= 1
    /\ docLoad.collections <= 1

\* C32: the completion callback of an addSpanPerformancePaintEvents call is
\* invoked at most once, and exactly when endSpan has run.
C32_CallbackAtMostOnce ==
    \A i \in 1..Len(paints) :
        /\ paints[i].callbacks <= 1
        /\ paints[i].callbacks = 1 <=> paints[i].spanIsEnded
        /\ paints[i].missed = {} => paints[i].spanIsEnded

\* C32 witness: visibilitychange ended the span while metrics were missing,
\* and the last of them were reported after that
C32_Witness ==
    /\ Len(paints) = 1
    /\ docLoad.chrome
    /\ paints[1].missed = {}
    /\ paints[1].callbacks = 1
    /\ paints[1].reentered
    /\ docLoad.visibilityState = "hidden" /\ ~docLoad.pageHidden
====
